---- MODULE Spec2Model ----
(***************************************************************************)
(* TrafficCamNetPostprocessor (tao_triton/python/postprocessing/           *)
(* trafficcamnet_processor.py): construction (__init__ + configure) and    *)
(* apply(results, this_id, render).                                        *)
(*                                                                         *)
(* Numbers.  Coverage values and the confidence thresholds are in tenths   *)
(* (9 stands for 0.9).  Pixel coordinates are in half pixels, so that the  *)
(* sub-pixel offset 0.5 is the integer 1.  The weights w / aggregated_w    *)
(* and the weighted mean box are exact rationals [n, d] in lowest terms;   *)
(* floating-point rounding is not modelled.  A regression output and a box *)
(* coordinate is Fin(v) or NaN.                                            *)
(*                                                                         *)
(* Exceptions.  A raised exception is a record [type, arg]; an operator    *)
(* that can raise returns [error |-> NoError or the exception, ...].       *)
(***************************************************************************)
EXTENDS Integers, Sequences, FiniteSets, TLC

VARIABLES
    phase,                \* "new" | "ready" | "failed" | "returned" | "raised"
    classes,              \* self.classes
    pproc_config,         \* self.pproc_config
    batch_size,           \* self.batch_size
    frames,               \* self.frames
    coverage_thresholds,  \* self.coverage_thresholds
    dbscan_elements,      \* self.dbscan_elements
    error,                \* the exception the last call raised, or NoError
    results,              \* apply's argument: the two output tensors
    fit,                  \* what the clusterer answers per (image, class)
    this_id,              \* apply's argument: the batch id
    stages,               \* the stages of apply that ran, in order
    abs_bbox,             \* apply's local: the denormalized boxes
    valid_indices,        \* apply's local: the thresholded cells
    fit_calls,            \* the <<image, class>> fit_predict was called for
    batchwise_boxes,      \* apply's local batchwise_boxes when it ended
    output                \* apply's return value (batch_boxes_output)

vars == <<phase, classes, pproc_config, batch_size, frames, coverage_thresholds,
          dbscan_elements, error, results, fit, this_id, stages, abs_bbox,
          valid_indices, fit_calls, batchwise_boxes, output>>

\* ---------------------------------------------------------------- bounds

MaxBatch == 2
MaxClasses == 2
GridCells == 2

\* ------------------------------------------------------ program constants

bbox_norm == 35
offset_half == 1
scale_h == 1
scale_w == 1

class_list == <<"car", "bicycle", "person", "road_sign">>

output_names == <<"output_cov/Sigmoid", "output_bbox/BiasAdd">>

\* The class indices the clustering loop visits: Python's [0], 1-based here.
class_idx_loop == <<1>>

\* ---------------------------------------------------------------- helpers

\* A float that may be non-finite.
Fin(v) == [finite |-> TRUE, v |-> v]

NaN == [finite |-> FALSE, v |-> 0]

IsNan(x) == ~x.finite

NoError == [type |-> "none", arg |-> "none"]

Raise(type, arg) == [type |-> type, arg |-> arg]

None == "None"

Range(s) == {s[i] : i \in DOMAIN s}

Max(S) == CHOOSE x \in S : \A y \in S : y <= x

Abs(x) == IF x < 0 THEN -x ELSE x

RECURSIVE Gcd(_, _)
Gcd(a, b) == IF b = 0 THEN a ELSE Gcd(b, a % b)

\* The rational n/d (d # 0) in lowest terms with a positive denominator.
Sign(d) == IF d < 0 THEN -1 ELSE 1

Rat(n, d) ==
    [n |-> (Sign(d) * n) \div Gcd(Abs(n), Abs(d)),
     d |-> (Sign(d) * d) \div Gcd(Abs(n), Abs(d))]

RAdd(a, b) == Rat(a.n * b.d + b.n * a.d, a.d * b.d)

RSub(a, b) == Rat(a.n * b.d - b.n * a.d, a.d * b.d)

RMulInt(a, k) == Rat(a.n * k, a.d)

RLess(a, b) == a.n * b.d < b.n * a.d

RECURSIVE SumSeq(_)
SumSeq(s) == IF s = <<>> THEN 0 ELSE Head(s) + SumSeq(Tail(s))

RECURSIVE RSumSeq(_)
RSumSeq(s) == IF s = <<>> THEN Rat(0, 1) ELSE RAdd(Head(s), RSumSeq(Tail(s)))

\* s[idx[1]], s[idx[2]], ...: numpy's s[idx] for an index array.
Take(s, idx) == [j \in 1..Len(idx) |-> s[idx[j]]]

\* The indices i..Len(mask) at which the boolean sequence mask holds, ascending.
RECURSIVE WhereFrom(_, _)
WhereFrom(mask, i) ==
    IF i > Len(mask) THEN <<>>
    ELSE (IF mask[i] THEN <<i>> ELSE <<>>) \o WhereFrom(mask, i + 1)

\* s[mask]: numpy's boolean-mask selection.
Masked(s, mask) == Take(s, WhereFrom(mask, 1))

\* getattr(obj, name) on an object whose attributes are the record's fields.
GetAttr(obj, name) ==
    IF name \in DOMAIN obj
    THEN [error |-> NoError, value |-> obj[name]]
    ELSE [error |-> Raise("AttributeError", name), value |-> None]

\* ------------------------------------------------- constructor's inputs

ClasswiseConfig(cov_thr, conf_thr, min_h) ==
    [coverage_threshold |-> cov_thr,
     minimum_bounding_box_height |-> min_h,
     bbox_color |-> "color",
     dbscan_config |-> [dbscan_eps |-> 3,
                        dbscan_min_samples |-> 1,
                        dbscan_confidence_threshold |-> conf_thr]]

\* The parsed PostprocessingConfig messages the clustering spec files hold.
FullProto ==
    [stride |-> 16,
     classwise_clustering_config |->
        [c \in Range(class_list) |->
            IF c = "car" THEN ClasswiseConfig(4, 5, 70)
                         ELSE ClasswiseConfig(4, 8, 10)]]

CarOnlyProto ==
    [stride |-> 16,
     classwise_clustering_config |->
        [c \in {"car"} |-> ClasswiseConfig(4, 9, 70)]]

\* The files on disk: path -> parsed content.
SpecFiles ==
    [f \in {"full.prototxt", "car_only.prototxt"} |->
        IF f = "full.prototxt" THEN FullProto ELSE CarOnlyProto]

ConfigPaths == DOMAIN SpecFiles \cup {"absent.prototxt"}

\* The class lists a run passes: the leading names of the model's class list.
ClassLists == {SubSeq(class_list, 1, n) : n \in 1..MaxClasses}

Frame(i) == [image_path |-> <<"input", i>>]

\* No frame, less than a batch, one batch and a frame, two batches.
FrameCounts == {0, MaxBatch - 1, MaxBatch + 1, 2 * MaxBatch}

FrameLists == {[i \in 1..n |-> Frame(i)] : n \in FrameCounts}

\* os.path.basename
basename(path) == path[Len(path)]

\* ---------------------------------------------------------- construction

load_clustering_config(config) ==
    IF config \notin DOMAIN SpecFiles
    THEN [error |-> Raise("IOError", config), value |-> None]
    ELSE [error |-> NoError, value |-> SpecFiles[config]]

\* The exception the raise statement of configure ends with: its argument,
\* format(class_name, self.pproc_config.keys()), is evaluated first.
MissingClassError(class_name, config) ==
    IF GetAttr(config, "keys").error # NoError
    THEN GetAttr(config, "keys").error
    ELSE Raise("KeyError", class_name)

\* The three assignments of configure's loop body for one class.
configure_class(class_name, cw, acc) ==
    [acc EXCEPT
       !.dbscan_elements = @ @@ (class_name :>
           [eps |-> cw.dbscan_config.dbscan_eps,
            min_samples |-> cw.dbscan_config.dbscan_min_samples]),
       !.coverage_thresholds = @ @@ (class_name :> cw.coverage_threshold),
       !.box_color = @ @@ (class_name :> cw.bbox_color)]

RECURSIVE configure_loop(_, _, _, _)
configure_loop(cls, i, config, acc) ==
    IF i > Len(cls) THEN acc
    ELSE IF cls[i] \notin DOMAIN config.classwise_clustering_config
    THEN [acc EXCEPT !.error = MissingClassError(cls[i], config)]
    ELSE configure_loop(cls, i + 1, config,
            configure_class(cls[i], config.classwise_clustering_config[cls[i]],
                            acc))

configure(cls, config) ==
    configure_loop(cls, 1, config,
        [error |-> NoError, dbscan_elements |-> << >>,
         coverage_thresholds |-> << >>, box_color |-> << >>])

\* ------------------------------------------------------- apply's inputs

\* What one grid cell holds for one class: the coverage and the four
\* regressed offsets (left, top, right, bottom).
Background == [cov |-> 4, raw |-> <<Fin(0), Fin(0), Fin(0), Fin(0)>>]

\* Two neighbouring objects' cells: a box of no width, and a low box.
PairCells == <<[cov |-> 9, raw |-> <<Fin(0), Fin(1), Fin(0), Fin(1)>>],
               [cov |-> 6, raw |-> <<Fin(1), Fin(1), Fin(1), Fin(0)>>]>>

\* A cell whose regression output is not finite.
NanCells == <<[cov |-> 9, raw |-> <<NaN, NaN, NaN, NaN>>]>>

\* The labelings a clusterer can answer for n samples: -1 is noise, the
\* clusters are numbered 0, 1, ... in the order of their first sample.
Labelings(n) ==
    {l \in [1..n -> -1..(n - 1)] :
        \A i \in 1..n :
            l[i] <= Max({-1} \cup {l[j] : j \in 1..(i - 1)}) + 1}

\* What one image shows: objects of the first class, of the last class, or
\* of none (cls = 0), with the clusterer's answer for them.  A class after
\* the first is only ever answered with one cluster of all its candidates.
Scenes(tc) ==
    {[cls |-> 0, cells |-> <<>>, labeling |-> <<>>]}
    \cup {[cls |-> 1, cells |-> PairCells, labeling |-> l] :
            l \in Labelings(Len(PairCells))}
    \cup {[cls |-> 1, cells |-> NanCells, labeling |-> <<0>>]}
    \cup {[cls |-> k, cells |-> PairCells, labeling |-> <<0, 0>>] :
            k \in {tc} \ {1}}

\* The cell of scene sc for class k at grid position a (the objects fill the
\* last positions of their class's grid).
SceneCell(sc, k, a) ==
    LET first == GridCells - Len(sc.cells)
    IN IF k = sc.cls /\ a > first THEN sc.cells[a - first] ELSE Background

\* The tensors the inference server returns for a batch showing scenes sc,
\* with tc classes: [batch, channel, GridCells, 1].
ResultsOf(sc, tc) ==
    [name \in Range(output_names) |->
        IF name = "output_cov/Sigmoid"
        THEN [i \in 1..Len(sc) |-> [k \in 1..tc |->
                [a \in 1..GridCells |-> <<SceneCell(sc[i], k, a).cov>>]]]
        ELSE [i \in 1..Len(sc) |-> [ch \in 1..(4 * tc) |->
                [a \in 1..GridCells |->
                    <<SceneCell(sc[i], ((ch - 1) \div 4) + 1, a).raw[
                          ((ch - 1) % 4) + 1]>>]]]]

FitOf(sc, tc) ==
    [i \in 1..Len(sc) |-> [k \in 1..tc |->
        IF k = sc[i].cls THEN sc[i].labeling ELSE <<>>]]

\* ------------------------------------------------------- tensor handling

as_numpy(res, name) == res[name]

\* ndarray.transpose(0, 1, 3, 2)
Transpose2(grid) ==
    [r \in 1..Len(grid[1]) |-> [c \in 1..Len(grid) |-> grid[c][r]]]

transpose(t) == [i \in DOMAIN t |-> [ch \in DOMAIN t[i] |-> Transpose2(t[i][ch])]]

\* ndarray.flatten(), row-major.
RECURSIVE flatten(_)
flatten(grid) == IF grid = <<>> THEN <<>> ELSE Head(grid) \o flatten(Tail(grid))

\* utils.denormalize_bounding_bboxes: offsets scaled by bbox_norm, added to
\* the cell's centre, rescaled; in half pixels.
denormalize_bounding_bboxes(bbox, stride) ==
    [i \in DOMAIN bbox |-> [ch \in DOMAIN bbox[i] |->
        [r \in DOMAIN bbox[i][ch] |-> [c \in DOMAIN bbox[i][ch][r] |->
            LET raw == bbox[i][ch][r][c]
                coord == ((ch - 1) % 4) + 1
                horizontal == coord \in {1, 3}
                centre == IF horizontal
                          THEN 2 * stride * (c - 1) + offset_half
                          ELSE 2 * stride * (r - 1) + offset_half
                sign == IF coord \in {1, 2} THEN -1 ELSE 1
                scale == IF horizontal THEN scale_w ELSE scale_h
            IN IF IsNan(raw) THEN NaN
               ELSE Fin((centre + sign * raw.v * 2 * bbox_norm) * scale)]]]]

\* The indices of the flat coverage grid above the threshold, ascending.
above_threshold(flat, threshold) ==
    WhereFrom([c \in 1..Len(flat) |-> flat[c] > threshold], 1)

\* utils.thresholded_indices: per image and class, the flat indices of the
\* cells whose coverage is above the class's threshold.
thresholded_indices(cov, num_classes, cls, thresholds) ==
    [i \in DOMAIN cov |-> [k \in 1..num_classes |->
        above_threshold(flatten(cov[i][k]), thresholds[cls[k]])]]

\* -------------------------------------------- clustering and aggregation

\* 1.0 * (1.0 - iou_vectorized(classwise_bboxes)): the matrix of pairwise
\* distances.  Only whether an entry is finite is kept (a finite distance is
\* Fin(0)); the clusterer's answer is an input (fit).
pairwise_dist_of(classwise_bboxes) ==
    [a \in 1..Len(classwise_bboxes) |-> [c \in 1..Len(classwise_bboxes) |->
        IF \E j \in 1..4 : IsNan(classwise_bboxes[a][j])
                           \/ IsNan(classwise_bboxes[c][j])
        THEN NaN ELSE Fin(0)]]

\* DBSCAN.fit_predict(X, sample_weight): the input is validated (a
\* non-finite entry is a ValueError), then the labels are returned.
fit_predict(X, sample_weight, answer) ==
    IF \E a \in DOMAIN X : \E c \in DOMAIN X[a] : IsNan(X[a][c])
    THEN [error |-> Raise("ValueError", "Input contains NaN"), value |-> None]
    ELSE [error |-> NoError, value |-> answer]

RECURSIVE SortedSeq(_)
SortedSeq(S) ==
    IF S = {} THEN <<>>
    ELSE <<CHOOSE x \in S : \A y \in S : x <= y>>
         \o SortedSeq(S \ {CHOOSE x \in S : \A y \in S : x <= y})

\* np.unique(labeling), the noise label not filtered out.
unique_labels_all(labeling) == SortedSeq(Range(labeling))

\* np.unique(labeling[labeling >= 0])
unique_labels(labeling) == SortedSeq({l \in Range(labeling) : l >= 0})

\* labeling == label
label_mask(labeling, label) == [m \in 1..Len(labeling) |-> labeling[m] = label]

\* np.sum((b.T * w_norm).T, axis=0) with w_norm = w / aggregated_w
weighted_mean(w, b, aggregated_w) ==
    [j \in 1..4 |->
        RSumSeq([m \in 1..Len(w) |-> RMulInt(Rat(w[m], aggregated_w), b[m][j].v)])]

\* aggregate with the plain mean of the boxes, the weights left out.
aggregate_unweighted(w, b) ==
    [aggregated_w |-> SumSeq(w),
     mean_bbox |-> [j \in 1..4 |->
        RSumSeq([m \in 1..Len(w) |-> RMulInt(Rat(1, Len(w)), b[m][j].v)])]]

\* The members' weights w and boxes b of one label, summed and averaged.
aggregate(w, b) ==
    [aggregated_w |-> SumSeq(w), mean_bbox |-> weighted_mean(w, b, SumSeq(w))]

\* valid_box with "at least" for the confidence threshold.
valid_box_at_least(aggregated_w, mean_bbox, cw_config) ==
    /\ aggregated_w >= cw_config.dbscan_config.dbscan_confidence_threshold
    /\ RLess(Rat(cw_config.minimum_bounding_box_height, 1),
             RSub(mean_bbox[4], mean_bbox[2]))

valid_box(aggregated_w, mean_bbox, cw_config) ==
    /\ aggregated_w > cw_config.dbscan_config.dbscan_confidence_threshold
    /\ RLess(Rat(cw_config.minimum_bounding_box_height, 1),
             RSub(mean_bbox[4], mean_bbox[2]))

KittiBbox(category, box, confidence_score) ==
    [category |-> category, truncation |-> 0, occlusion |-> 0,
     observation_angle |-> 0, box |-> box, confidence_score |-> confidence_score]

\* "if valid_box: clustered_boxes.append(KittiBbox(...))"
append_if_valid(class_name, cw_config, agg) ==
    IF valid_box(agg.aggregated_w, agg.mean_bbox, cw_config)
    THEN <<KittiBbox(class_name, agg.mean_bbox, agg.aggregated_w)>>
    ELSE <<>>

\* One pass of "for label in labels": the box appended for label, if any.
label_boxes(label, class_name, cw_config, classwise_covs, classwise_bboxes, labeling) ==
    append_if_valid(class_name, cw_config,
        aggregate(Masked(classwise_covs, label_mask(labeling, label)),
                  Masked(classwise_bboxes, label_mask(labeling, label))))

RECURSIVE clustered_boxes_loop(_, _, _, _, _, _, _)
clustered_boxes_loop(labels, p, class_name, cw_config, classwise_covs, classwise_bboxes, labeling) ==
    IF p > Len(labels) THEN <<>>
    ELSE label_boxes(labels[p], class_name, cw_config, classwise_covs,
                     classwise_bboxes, labeling)
         \o clustered_boxes_loop(labels, p + 1, class_name, cw_config,
                                 classwise_covs, classwise_bboxes, labeling)

\* From "labeling = ...fit_predict(...)" on: the clustered boxes of the class,
\* or the exception the clusterer raised.
cluster_class(class_name, cw_config, classwise_covs, classwise_bboxes, fitted) ==
    IF fitted.error # NoError
    THEN [error |-> fitted.error, value |-> <<>>, fitted |-> TRUE]
    ELSE [error |-> NoError, fitted |-> TRUE,
          value |-> clustered_boxes_loop(unique_labels(fitted.value), 1,
                        class_name, cw_config, classwise_covs,
                        classwise_bboxes, fitted.value)]

\* threshold_class without the "size == 0" test: the clusterer is handed the
\* empty matrix, which its input validation rejects.
threshold_class_unguarded(class_name, cw_config, classwise_covs, classwise_bboxes, answer) ==
    cluster_class(class_name, cw_config, classwise_covs, classwise_bboxes,
        IF Len(classwise_covs) = 0
        THEN [error |-> Raise("ValueError", "Found array with 0 sample(s)"),
              value |-> None]
        ELSE fit_predict(pairwise_dist_of(classwise_bboxes), classwise_covs,
                         answer))

\* From "if classwise_covs.size == 0: continue" on.
threshold_class(class_name, cw_config, classwise_covs, classwise_bboxes, answer) ==
    IF Len(classwise_covs) = 0
    THEN [error |-> NoError, value |-> <<>>, fitted |-> FALSE]
    ELSE cluster_class(class_name, cw_config, classwise_covs, classwise_bboxes,
             fit_predict(pairwise_dist_of(classwise_bboxes), classwise_covs,
                         answer))

\* ndarray.T of a two-dimensional array.
columns(rows) ==
    [c \in 1..Len(rows[1]) |-> [j \in 1..Len(rows) |-> rows[j][c]]]

\* bboxes[4*class_idx:4*class_idx+4].reshape(4, -1).T: a box per cell.
class_cells(bboxes, class_idx) ==
    columns(<<flatten(bboxes[4 * (class_idx - 1) + 1]),
              flatten(bboxes[4 * (class_idx - 1) + 2]),
              flatten(bboxes[4 * (class_idx - 1) + 3]),
              flatten(bboxes[4 * (class_idx - 1) + 4])>>)

\* The body of "for class_idx in [0]" for one image.
classwise_boxes(class_idx, covs, bboxes, indices, answer) ==
    threshold_class(classes[class_idx],
        pproc_config.classwise_clustering_config[classes[class_idx]],
        Take(flatten(covs[class_idx]), indices[class_idx]),
        Take(class_cells(bboxes, class_idx), indices[class_idx]),
        answer[class_idx])

\* The class loop of one image: imagewise_boxes (value), the classes the
\* clusterer was called for (calls), and the exception raised, if any.
RECURSIVE imagewise_loop(_, _, _, _, _, _)
RECURSIVE imagewise_next(_, _, _, _, _, _, _)
imagewise_loop(p, acc, covs, bboxes, indices, answer) ==
    IF p > Len(class_idx_loop) THEN acc
    ELSE imagewise_next(p, acc, covs, bboxes, indices, answer,
             classwise_boxes(class_idx_loop[p], covs, bboxes, indices, answer))

imagewise_next(p, acc, covs, bboxes, indices, answer, got) ==
    IF got.error # NoError
    THEN [error |-> got.error, value |-> acc.value,
          calls |-> Append(acc.calls, class_idx_loop[p])]
    ELSE imagewise_loop(p + 1,
            [error |-> NoError, value |-> acc.value \o got.value,
             calls |-> IF got.fitted THEN Append(acc.calls, class_idx_loop[p])
                       ELSE acc.calls],
            covs, bboxes, indices, answer)

imagewise_boxes(covs, bboxes, indices, answer) ==
    imagewise_loop(1, [error |-> NoError, value |-> <<>>, calls |-> <<>>],
                   covs, bboxes, indices, answer)

\* "for image_idx, indices in enumerate(valid_indices)": batchwise_boxes as
\* far as it was built (value), the clusterer's calls, and the exception that
\* ended the loop, if any.
RECURSIVE batchwise_loop(_, _, _, _, _, _)
RECURSIVE batchwise_next(_, _, _, _, _, _, _)
batchwise_loop(image_idx, acc, cov, bbox, indices, answers) ==
    IF image_idx > Len(indices) THEN acc
    ELSE batchwise_next(image_idx, acc, cov, bbox, indices, answers,
             imagewise_boxes(cov[image_idx], bbox[image_idx],
                             indices[image_idx], answers[image_idx]))

batchwise_next(image_idx, acc, cov, bbox, indices, answers, got) ==
    IF got.error # NoError
    THEN [error |-> got.error, value |-> acc.value,
          calls |-> acc.calls \o [m \in 1..Len(got.calls) |->
                                    <<image_idx, got.calls[m]>>]]
    ELSE batchwise_loop(image_idx + 1,
            [error |-> NoError, value |-> Append(acc.value, got.value),
             calls |-> acc.calls \o [m \in 1..Len(got.calls) |->
                                       <<image_idx, got.calls[m]>>]],
            cov, bbox, indices, answers)

batchwise(cov, bbox, indices, answers) ==
    batchwise_loop(1, [error |-> NoError, value |-> <<>>, calls |-> <<>>],
                   cov, bbox, indices, answers)

\* ---------------------------------------------------------------- output

\* utils.return_bbox_info: the output records of one frame's boxes.
return_bbox_info(current_frame, boxes) ==
    [m \in 1..Len(boxes) |->
        [class |-> boxes[m].category, box |-> boxes[m].box,
         confidence |-> boxes[m].confidence_score]]

\* "for image_idx in range(self.batch_size)" of the render branch; image_idx
\* and current_idx are 0-based as in the source.
RECURSIVE render_loop(_, _, _, _, _, _)
render_loop(image_idx, acc, bsize, frs, id, boxes) ==
    IF image_idx >= bsize THEN acc
    ELSE IF (id - 1) * bsize + image_idx >= Len(frs) THEN acc
    ELSE render_loop(image_idx + 1,
            Append(acc,
                <<return_bbox_info(frs[(id - 1) * bsize + image_idx + 1],
                                   boxes[image_idx + 1]),
                  basename(frs[(id - 1) * bsize + image_idx + 1].image_path)>>),
            bsize, frs, id, boxes)

\* The render loop without its break: an entry for every batch position.
batch_boxes_output_unbroken(bsize, frs, id, boxes) ==
    [p \in 1..bsize |->
        <<return_bbox_info(None, boxes[p]),
          IF (id - 1) * bsize + p <= Len(frs)
          THEN basename(frs[(id - 1) * bsize + p].image_path) ELSE 0>>]

\* The render loop with current_idx = this_id * batch_size + image_idx.
batch_boxes_output_from_zero(bsize, frs, id, boxes) ==
    render_loop(0, <<>>, bsize, frs, id + 1, boxes)

batch_boxes_output(bsize, frs, id, boxes) ==
    render_loop(0, <<>>, bsize, frs, id, boxes)

\* ----------------------------------------------------------------- apply

\* The assert letting a tensor of more classes pass.
classes_at_most(cls, cov) == Len(cls) <= Len(cov[1])

\* The assert of apply.
classes_match(cls, cov) == Len(cls) = Len(cov[1])

\* From "if render:" on, or the exception of the image loop passed on.
apply_render(boxes, bbox, indices, id, render) ==
    [error |-> boxes.error,
     stages |-> IF boxes.error = NoError /\ render
                THEN <<"denormalize", "threshold", "cluster", "render">>
                ELSE <<"denormalize", "threshold", "cluster">>,
     abs_bbox |-> bbox,
     valid_indices |-> indices,
     fit_calls |-> boxes.calls,
     batchwise_boxes |-> boxes.value,
     output |-> IF boxes.error = NoError /\ render
                THEN batch_boxes_output(batch_size, frames, id, boxes.value)
                ELSE None]

\* From "batchwise_boxes = []" on.
apply_images(cov, bbox, indices, answers, id, render) ==
    apply_render(batchwise(cov, bbox, indices, answers), bbox, indices, id,
                 render)

\* From the assert on, on the transposed tensors.
apply_arrays(cov, bbox, answers, id, render) ==
    IF ~classes_match(classes, cov)
    THEN [error |-> Raise("AssertionError", "Number of classes"),
          stages |-> <<>>, abs_bbox |-> None, valid_indices |-> None,
          fit_calls |-> <<>>, batchwise_boxes |-> <<>>, output |-> None]
    ELSE apply_images(cov,
            denormalize_bounding_bboxes(bbox, pproc_config.stride),
            thresholded_indices(cov, Len(classes), classes,
                                coverage_thresholds),
            answers, id, render)

apply(res, answers, id, render) ==
    apply_arrays(transpose(as_numpy(res, "output_cov/Sigmoid")),
                 transpose(as_numpy(res, "output_bbox/BiasAdd")),
                 answers, id, render)

Init ==
    /\ phase = "new"
    /\ classes = <<>>
    /\ pproc_config = None
    /\ batch_size = 0
    /\ frames = <<>>
    /\ coverage_thresholds = << >>
    /\ dbscan_elements = << >>
    /\ error = NoError
    /\ results = None
    /\ fit = None
    /\ this_id = 0
    /\ stages = <<>>
    /\ abs_bbox = None
    /\ valid_indices = None
    /\ fit_calls = <<>>
    /\ batchwise_boxes = <<>>
    /\ output = None

\* __init__ after "self.pproc_config = load_clustering_config(...)".
ConstructConfigured(b, fr, cls, config, conf) ==
    /\ pproc_config' = config
    /\ classes' = cls
    /\ batch_size' = b
    /\ frames' = fr
    /\ coverage_thresholds' = conf.coverage_thresholds
    /\ dbscan_elements' = conf.dbscan_elements
    /\ error' = conf.error
    /\ phase' = IF conf.error = NoError THEN "ready" ELSE "failed"

ConstructEnds(b, fr, cls, loaded) ==
    IF loaded.error # NoError
    THEN /\ phase' = "failed"
         /\ error' = loaded.error
         /\ UNCHANGED <<classes, pproc_config, batch_size, frames,
                        coverage_thresholds, dbscan_elements>>
    ELSE ConstructConfigured(b, fr, cls, loaded.value,
                             configure(cls, loaded.value))

\* TrafficCamNetPostprocessor(batch_size, frames, ..., classes,
\*                            postprocessing_config, target_shape)
Construct ==
    /\ phase = "new"
    /\ \E b \in 1..MaxBatch, fr \in FrameLists, cls \in ClassLists,
          path \in ConfigPaths :
        ConstructEnds(b, fr, cls, load_clustering_config(path))
    /\ UNCHANGED <<results, fit, this_id, stages, abs_bbox, valid_indices,
                   fit_calls, batchwise_boxes, output>>

\* The class dimensions of the tensors a postprocessor of n classes is
\* handed: n, and one that differs.
TensorClasses(n) == {n, (n % MaxClasses) + 1}

\* The ids of the batches of the frame list, and of one past its end.
BatchIds == 1..((Len(frames) \div batch_size) + 1)

\* What a call of apply leaves behind.
ApplyEnds(res, answers, id, got) ==
    /\ results' = res
    /\ fit' = answers
    /\ this_id' = id
    /\ stages' = got.stages
    /\ abs_bbox' = got.abs_bbox
    /\ valid_indices' = got.valid_indices
    /\ fit_calls' = got.fit_calls
    /\ batchwise_boxes' = got.batchwise_boxes
    /\ output' = got.output
    /\ error' = got.error
    /\ phase' = IF got.error = NoError THEN "returned" ELSE "raised"

ApplyCall(res, answers, id) ==
    ApplyEnds(res, answers, id, apply(res, answers, id, TRUE))

\* postprocessor.apply(results, this_id) on the tensors of one batch.
Apply ==
    /\ phase = "ready"
    /\ \E tc \in TensorClasses(Len(classes)), id \in BatchIds :
       \E sc \in [1..batch_size -> Scenes(tc)] :
          ApplyCall(ResultsOf(sc, tc), FitOf(sc, tc), id)
    /\ UNCHANGED <<classes, pproc_config, batch_size, frames,
                   coverage_thresholds, dbscan_elements>>

Next == Construct \/ Apply


Spec == Init /\ [][Next]_vars

\* ------------------------------------------------------------ properties

\* apply was called and has ended.
Applied == phase \in {"returned", "raised"}

Min(a, b) == IF a < b THEN a ELSE b

RECURSIVE SumOver(_, _)
SumOverFrom(S, f, x) == f[x] + SumOver(S \ {x}, f)
SumOver(S, f) == IF S = {} THEN 0 ELSE SumOverFrom(S, f, CHOOSE x \in S : TRUE)

\* The tensors apply was handed have one coverage channel per class.
WellShaped == Len(results["output_cov/Sigmoid"][1]) = Len(classes)

\* No regression output of the batch is NaN.
TensorsFinite ==
    \A i \in DOMAIN results["output_bbox/BiasAdd"] :
    \A ch \in DOMAIN results["output_bbox/BiasAdd"][i] :
    \A a \in DOMAIN results["output_bbox/BiasAdd"][i][ch] :
    \A c \in DOMAIN results["output_bbox/BiasAdd"][i][ch][a] :
        results["output_bbox/BiasAdd"][i][ch][a][c].finite

\* The coverage of class k in image i, cell by cell as apply flattens it.
FlatCov(i, k) == flatten(Transpose2(results["output_cov/Sigmoid"][i][k]))

\* The candidates of class k in image i, from what apply computed before its
\* image loop: their weights and their boxes.
CandidateCovs(i, k) == Take(FlatCov(i, k), valid_indices[i][k])

CandidateBoxes(i, k) == Take(class_cells(abs_bbox[i], k), valid_indices[i][k])

CwConfig(k) == pproc_config.classwise_clustering_config[classes[k]]

\* The clusters of a labeling, and each one's members.
Labels(labeling) == {l \in Range(labeling) : l >= 0}

MembersOf(labeling, l) == {m \in DOMAIN labeling : labeling[m] = l}

\* The sum of the weights of cluster l, and of its weighted coordinates j.
WeightOf(covs, labeling, l) == SumOver(MembersOf(labeling, l), covs)

WeightedCoords(covs, boxes, j) == [m \in DOMAIN covs |-> covs[m] * boxes[m][j].v]

CoordOf(covs, boxes, labeling, l, j) ==
    SumOver(MembersOf(labeling, l), WeightedCoords(covs, boxes, j))

\* Detection d is the aggregate of cluster l: the summed weights of its
\* members, and the average of their boxes under these weights.
IsAggregate(d, category, weight, covs, boxes, labeling, l) ==
    /\ d.category = category
    /\ d.confidence_score = weight
    /\ \A j \in 1..4 :
          d.box[j].n * weight = d.box[j].d * CoordOf(covs, boxes, labeling, l, j)

\* A cluster of summed weight and summed weighted top and bottom passes the
\* validity filter: the weight is above dbscan_confidence_threshold, and the
\* height of the weighted-average box above minimum_bounding_box_height.
Passes(cw_config, weight, top, bottom) ==
    /\ weight > cw_config.dbscan_config.dbscan_confidence_threshold
    /\ bottom - top > cw_config.minimum_bounding_box_height * weight

PassesOf(cw_config, covs, boxes, labeling, l) ==
    Passes(cw_config, WeightOf(covs, labeling, l),
           CoordOf(covs, boxes, labeling, l, 2),
           CoordOf(covs, boxes, labeling, l, 4))

\* The same of cluster l of class k in image i.
ClusterLabels(i, k) == Labels(fit[i][k])

Members(i, k, l) == MembersOf(fit[i][k], l)

ClusterWeight(i, k, l) == WeightOf(CandidateCovs(i, k), fit[i][k], l)

PassesFilter(i, k, l) ==
    PassesOf(CwConfig(k), CandidateCovs(i, k), CandidateBoxes(i, k), fit[i][k], l)

DetectionOf(d, i, k, l) ==
    IsAggregate(d, classes[k], ClusterWeight(i, k, l), CandidateCovs(i, k),
                CandidateBoxes(i, k), fit[i][k], l)

\* Detection d is the aggregate of a cluster of its class, among candidates
\* of the given weights and boxes; its confidence is at most their sum.
AggregateAmong(d, category, covs, boxes, labeling) ==
    \E l \in Labels(labeling) :
        /\ IsAggregate(d, category, WeightOf(covs, labeling, l), covs, boxes,
                       labeling, l)
        /\ d.confidence_score <= SumSeq(covs)

\* Detection d is the aggregate of a cluster of tensor slice i.
AggregateOfSlice(d, i) ==
    \E k \in DOMAIN classes :
        /\ d.category = classes[k]
        /\ AggregateAmong(d, classes[k], CandidateCovs(i, k),
                          CandidateBoxes(i, k), fit[i][k])

\* The batch positions that have a frame, for batch id t.
Remaining(t) == Min(batch_size, Max({0, Len(frames) - (t - 1) * batch_size}))

\* The frame of batch position i (from 1) of batch id t.
FrameOf(t, i) == frames[(t - 1) * batch_size + i]

\* C1: whatever the batch size, the frame list and the batch id t, apply on
\* well-formed tensors raises nothing and returns exactly
\* min(batch_size, max(0, len(frames) - (t-1)*batch_size)) per-image outputs.
C1_PartialBatchCount ==
    (Applied /\ WellShaped /\ TensorsFinite)
        => /\ phase = "returned"
           /\ Len(output) = Remaining(this_id)

\* A last batch with fewer frames than batch_size has been returned.
C1_Witness ==
    /\ phase = "returned"
    /\ this_id > 1
    /\ Len(output) > 0
    /\ Len(output) < batch_size
    /\ Len(output) = Len(frames) - (this_id - 1) * batch_size

\* C2: for every image and every class of the class list, if the class has
\* thresholded candidates forming a cluster that passes the validity filter,
\* the image's boxes hold a detection labelled with that class.
C2_EveryClassClustered ==
    phase = "returned" =>
        \A i \in DOMAIN batchwise_boxes : \A k \in DOMAIN classes :
            (\E l \in ClusterLabels(i, k) : PassesFilter(i, k, l))
                => \E m \in DOMAIN batchwise_boxes[i] :
                      batchwise_boxes[i][m].category = classes[k]

\* The detections dets of a clustered class are the aggregates of exactly its
\* passing clusters.
FilterDecides(dets, category, cw_config, covs, boxes, labeling) ==
    /\ \A l \in Labels(labeling) :
          PassesOf(cw_config, covs, boxes, labeling, l)
              <=> \E m \in DOMAIN dets :
                     IsAggregate(dets[m], category, WeightOf(covs, labeling, l),
                                 covs, boxes, labeling, l)
    /\ Cardinality({m \in DOMAIN dets : dets[m].category = category})
       = Cardinality({l \in Labels(labeling) :
                         PassesOf(cw_config, covs, boxes, labeling, l)})

\* C3: a cluster the clusterer returned yields a detection if and only if it
\* passes the validity filter (both comparisons strict); otherwise it yields
\* none, and the detections of a clustered class are as many as its passing
\* clusters.
C3_ValidityFilter ==
    Applied =>
        \A i \in DOMAIN batchwise_boxes : \A k \in DOMAIN classes :
            <<i, k>> \in Range(fit_calls) =>
                FilterDecides(batchwise_boxes[i], classes[k], CwConfig(k),
                              CandidateCovs(i, k), CandidateBoxes(i, k),
                              fit[i][k])

\* A lone candidate of coverage 0.9 was clustered, its weight does not exceed
\* the cluster-level threshold, and its image has no detection, while another
\* image of the batch has one.
C3_Witness ==
    /\ phase = "returned"
    /\ \E i \in DOMAIN batchwise_boxes : \E l \in ClusterLabels(i, 1) :
          /\ <<i, 1>> \in Range(fit_calls)
          /\ Cardinality(Members(i, 1, l)) = 1
          /\ ClusterWeight(i, 1, l) = 9
          /\ ~PassesFilter(i, 1, l)
          /\ batchwise_boxes[i] = <<>>
    /\ \E i \in DOMAIN batchwise_boxes : batchwise_boxes[i] # <<>>

\* C4: every emitted detection is the aggregate of one cluster: its
\* confidence is the sum of the weights of exactly the candidates carrying
\* the cluster's label, each coordinate is their weighted average, and the
\* confidence is at most the summed weight of all candidates of the class.
C4_Aggregation ==
    Applied =>
        \A i \in DOMAIN batchwise_boxes : \A m \in DOMAIN batchwise_boxes[i] :
            AggregateOfSlice(batchwise_boxes[i][m], i)

\* A detection merged from two candidates of different weights and boxes has
\* been emitted: its confidence is their sum, its left edge a proper fraction.
C4_Witness ==
    /\ phase = "returned"
    /\ \E i \in DOMAIN batchwise_boxes : \E m \in DOMAIN batchwise_boxes[i] :
       \E l \in ClusterLabels(i, 1) :
          /\ Cardinality(Members(i, 1, l)) = 2
          /\ DetectionOf(batchwise_boxes[i][m], i, 1, l)
          /\ batchwise_boxes[i][m].confidence_score = 15
          /\ batchwise_boxes[i][m].box[1].d # 1
          /\ CandidateCovs(i, 1)[1] # CandidateCovs(i, 1)[2]
          /\ CandidateBoxes(i, 1)[1] # CandidateBoxes(i, 1)[2]

\* Candidate boxes that are finite and ordered.
Ordered(boxes) ==
    \A m \in DOMAIN boxes :
        /\ \A j \in 1..4 : boxes[m][j].finite
        /\ boxes[m][1].v <= boxes[m][3].v
        /\ boxes[m][2].v <= boxes[m][4].v

\* C5: when the candidate boxes are ordered x1 <= x2 and y1 <= y2, every
\* emitted detection has a box with x1 < x2 and y1 < y2.
C5_BoxesOrdered ==
    Applied =>
        \A i \in DOMAIN batchwise_boxes :
            (\A k \in DOMAIN classes : Ordered(CandidateBoxes(i, k)))
                => \A m \in DOMAIN batchwise_boxes[i] :
                      /\ RLess(batchwise_boxes[i][m].box[1],
                               batchwise_boxes[i][m].box[3])
                      /\ RLess(batchwise_boxes[i][m].box[2],
                               batchwise_boxes[i][m].box[4])

\* Class k has no cell above its coverage threshold in image i.
NoCandidates(i, k) == valid_indices[i][k] = <<>>

\* C6: when no cell of a class exceeds the class's coverage threshold in an
\* image, the clusterer is not called for that image and class and the
\* image's boxes hold no detection of the class; and, on tensors that nothing
\* else fails for, apply raises nothing, the image has its entry in
\* batchwise_boxes and, if it has a frame, its entry in the output, which is
\* empty if no class has candidates.
C6_EmptyCandidates ==
    (Applied /\ WellShaped) =>
        /\ \A i \in 1..batch_size : \A k \in DOMAIN classes :
              NoCandidates(i, k) =>
                  /\ <<i, k>> \notin Range(fit_calls)
                  /\ i \in DOMAIN batchwise_boxes =>
                        \A m \in DOMAIN batchwise_boxes[i] :
                            batchwise_boxes[i][m].category # classes[k]
        /\ TensorsFinite =>
              /\ phase = "returned"
              /\ \A i \in 1..batch_size :
                    (\E k \in DOMAIN classes : NoCandidates(i, k)) =>
                        /\ i \in DOMAIN batchwise_boxes
                        /\ i <= Remaining(this_id) =>
                              /\ i \in DOMAIN output
                              /\ (\A k \in DOMAIN classes : NoCandidates(i, k))
                                    => output[i][1] = <<>>

\* A batch was returned in which one image has no candidate of any class and
\* an empty entry of its own, and another image has a detection.
C6_Witness ==
    /\ phase = "returned"
    /\ \E i \in DOMAIN output :
          /\ \A k \in DOMAIN classes : NoCandidates(i, k)
          /\ output[i][1] = <<>>
          /\ \A c \in Range(fit_calls) : c[1] # i
    /\ \E i \in DOMAIN output : output[i][1] # <<>>

\* The class list has a class the clustering config has no entry for.
UnconfiguredClasses ==
    {c \in Range(classes) : c \notin DOMAIN pproc_config.classwise_clustering_config}

\* The postprocessor's constructor got as far as configure.
Configuring == phase # "new" /\ error.type # "IOError"

\* C7: if a class of the class list is absent from the clustering config,
\* construction fails with a KeyError naming that class.
C7_MissingClassKeyError ==
    (Configuring /\ UnconfiguredClasses # {}) =>
        /\ phase = "failed"
        /\ error.type = "KeyError"
        /\ error.arg \in UnconfiguredClasses

\* C8: if the class list and the coverage tensor's class dimension differ in
\* size, apply raises the assertion's error before any image is denormalized,
\* thresholded or clustered, and returns no output.
C8_ShapeMismatchFatal ==
    (Applied /\ ~WellShaped) =>
        /\ phase = "raised"
        /\ error.type = "AssertionError"
        /\ stages = <<>>
        /\ fit_calls = <<>>
        /\ batchwise_boxes = <<>>
        /\ output = None

\* apply raised the assertion's error on a tensor of the wrong class count
\* that holds cells above the threshold.
C8_Witness ==
    /\ phase = "raised"
    /\ error.type = "AssertionError"
    /\ ~WellShaped
    /\ \E i \in 1..batch_size : \E c \in DOMAIN FlatCov(i, 1) :
          FlatCov(i, 1)[c] > coverage_thresholds[classes[1]]
    /\ output = None

\* Image i of the batch cannot be clustered: a candidate of a class the loop
\* visits has a box that is not finite.
ImageFails(i) ==
    \E p \in DOMAIN class_idx_loop :
    \E m \in DOMAIN CandidateBoxes(i, class_idx_loop[p]) :
    \E j \in 1..4 : ~CandidateBoxes(i, class_idx_loop[p])[m][j].finite

\* The boxes apply computes from tensor slice i alone.
SliceBoxes(i) ==
    imagewise_boxes(transpose(<<results["output_cov/Sigmoid"][i]>>)[1],
                    abs_bbox[i], valid_indices[i], fit[i]).value

\* C9: when the clustering of one image of a batch fails, apply still
\* returns, and every other image that has a frame has its normal output at
\* its position.
C9_FailureIsolated ==
    (Applied /\ WellShaped) =>
        \A i \in 1..batch_size : \A j \in 1..batch_size :
            (ImageFails(i) /\ ~ImageFails(j) /\ j <= Remaining(this_id)) =>
                /\ phase = "returned"
                /\ j \in DOMAIN output
                /\ output[j][1] = return_bbox_info(FrameOf(this_id, j),
                                                   SliceBoxes(j))

\* C10: in the list apply returns for batch id t, position i (from 0) holds
\* the filename of frame (t-1)*batch_size + i and the detections of image i
\* of the batch, each the aggregate of a cluster of tensor slice i; so no two
\* positions share a frame or a slice.
C10_PositionsPaired ==
    phase = "returned" =>
        /\ \A i \in DOMAIN output :
              /\ (this_id - 1) * batch_size + i <= Len(frames)
              /\ output[i][2] = basename(FrameOf(this_id, i).image_path)
              /\ output[i][1] = return_bbox_info(FrameOf(this_id, i),
                                                 batchwise_boxes[i])
              /\ \A m \in DOMAIN batchwise_boxes[i] :
                    AggregateOfSlice(batchwise_boxes[i][m], i)
        /\ \A i \in DOMAIN output : \A j \in DOMAIN output :
              i # j => output[i][2] # output[j][2]

\* A batch after the first was returned with two entries whose detections
\* differ.
C10_Witness ==
    /\ phase = "returned"
    /\ this_id > 1
    /\ Len(output) >= 2
    /\ output[1][1] # output[2][1]
    /\ output[1][1] # <<>>
    /\ output[2][2] = basename(FrameOf(this_id, 2).image_path)

\* The detections of a category among dets, and their summed confidence.
OfCategory(dets, category) == {m \in DOMAIN dets : dets[m].category = category}

Confidences(dets) == [m \in DOMAIN dets |-> dets[m].confidence_score]

\* The candidates the clusterer gave a label >= 0.
Clustered(labeling) == {m \in DOMAIN labeling : labeling[m] >= 0}

\* The detections dets of one class leave the noise out: each is the
\* aggregate of a cluster of label >= 0, no such cluster has two of them,
\* they are at most as many as the distinct labels >= 0, and their
\* confidences sum to at most the weight of the candidates not labelled -1.
NoiseLeftOut(dets, category, covs, boxes, labeling) ==
    /\ \A m \in OfCategory(dets, category) :
          \E l \in Labels(labeling) :
              IsAggregate(dets[m], category, WeightOf(covs, labeling, l), covs,
                          boxes, labeling, l)
    /\ \A l \in Labels(labeling) :
          Cardinality({m \in OfCategory(dets, category) :
              IsAggregate(dets[m], category, WeightOf(covs, labeling, l), covs,
                          boxes, labeling, l)}) <= 1
    /\ Cardinality(OfCategory(dets, category)) <= Cardinality(Labels(labeling))
    /\ SumOver(OfCategory(dets, category), Confidences(dets))
          <= SumOver(Clustered(labeling), covs)

\* C11: candidates labelled -1 contribute to no detection: for every image
\* and class, every detection aggregates one label >= 0, each label at most
\* once, the detections are at most as many as the distinct labels >= 0, and
\* each candidate's weight is counted in at most one detection.
C11_NoiseDiscarded ==
    Applied =>
        \A i \in DOMAIN batchwise_boxes : \A k \in DOMAIN classes :
            NoiseLeftOut(batchwise_boxes[i], classes[k], CandidateCovs(i, k),
                         CandidateBoxes(i, k), fit[i][k])

\* A batch was returned in which one image's candidates are a cluster and a
\* noise point, with one detection of the cluster's weight alone, and
\* another image's candidates are all noise, with no detection.
C11_Witness ==
    /\ phase = "returned"
    /\ \E i \in DOMAIN batchwise_boxes :
          /\ <<i, 1>> \in Range(fit_calls)
          /\ -1 \in Range(fit[i][1])
          /\ Labels(fit[i][1]) # {}
          /\ Len(batchwise_boxes[i]) = 1
          /\ batchwise_boxes[i][1].confidence_score < SumSeq(CandidateCovs(i, 1))
    /\ \E i \in DOMAIN batchwise_boxes :
          /\ <<i, 1>> \in Range(fit_calls)
          /\ Labels(fit[i][1]) = {}
          /\ batchwise_boxes[i] = <<>>

====
